---------------------------- MODULE Spec2Model ----------------------------
(***************************************************************************)
(* Model of train_ticket_checker.py: a Telegram bot with two commands,     *)
(* /startcheck and /stopcheck, that registers one repeating job with the   *)
(* `schedule` library and starts a daemon thread polling run_pending().    *)
(*                                                                         *)
(* Threads.  The command handlers run one at a time on the dispatcher      *)
(* thread.  Each handler touches the state it shares with the polling      *)
(* threads (the scheduler's job list) exactly once, and the global `job`   *)
(* is read and written by handlers only, so a handler is one action.  A    *)
(* polling thread is a sequence of steps: run_pending() selects the due    *)
(* jobs, then runs them one by one; the probe inside a job opens a browser *)
(* session, then navigates, does the guarded body, and the job sends the   *)
(* result.  No lock orders these steps against the handlers.               *)
(*                                                                         *)
(* A Job object that is neither registered nor held by a running           *)
(* run_pending() is unreachable: the model forgets its fields (Forget) and *)
(* gives its id to the next Job object.  The polling threads run the same  *)
(* code and nothing names one of them, so they are kept as a bag.          *)
(*                                                                         *)
(* Text is a sequence of strings: literal pieces of an f-string are one    *)
(* element each, a formatted or parsed value is one element per character. *)
(* The messaging channel is taken to deliver: reply_text and send_message  *)
(* do not raise.  The schedule library is the one python-telegram-bot 13   *)
(* (Updater, use_context) ran with: every(n).minutes.do(f) sets next_run   *)
(* to now + n minutes for any integer n and appends the job; run_pending() *)
(* sorts the due jobs of the registry and runs each; cancel_job removes.   *)
(***************************************************************************)
EXTENDS Integers, Sequences, FiniteSets, Bags, TLC

(* ------------------------------ bounds -------------------------------- *)
MaxStarts == 2      \* successful startchecks: jobs created, threads started
MaxTime == 1        \* minutes of wall clock that pass
MaxEntries == 2     \* result entries one probe extracts

(* --------------------------- program constants ------------------------ *)
NoJob == 0                  \* job = None
DefaultInterval == 60       \* the interval when the 4th argument is absent

(* ------------------------------- inputs ------------------------------- *)
\* words: a sequence of pieces, one character each where int() reads them
Delhi == <<"Delhi">>
Mumbai == <<"Mumbai">>
Date1 == <<"2024-05-01">>

\* context.args of the startcheck commands that arrive
ArgLists ==
    { <<Delhi, Mumbai>>,
      <<Delhi, Mumbai, Date1>>,
      <<Delhi, Mumbai, Date1, <<"+", "0", "1">> >>,
      <<Mumbai, Delhi, Date1, <<"0">> >>,
      <<Mumbai, Delhi, Date1, <<"-", "1">>, Delhi>>,
      <<Delhi, Mumbai, Date1, <<"1", ".", "5">> >> }

Chats == {101, 102}         \* update.effective_chat.id of a command

\* what os.getenv returns: "None" stands for None (the variable is unset)
EnvValues == {"None", "", "secret"}

\* the (train name, availability) pairs a results page can hold
Entries == { <<"Train A", "AVAILABLE">>, <<"Train B", "WL 12">> }

RECURSIVE SeqsUpTo(_, _)
SeqsUpTo(S, n) ==
    IF n = 0 THEN { <<>> }
    ELSE LET shorter == SeqsUpTo(S, n - 1)
         IN  shorter \cup { Append(s, e) : s \in shorter, e \in S }

\* the exceptions the steps inside the try block can raise
TryFailures == {"field", "search", "results", "extract"}

(* ------------------------------ int(), str() -------------------------- *)
Digits == <<"0", "1", "2", "3", "4", "5", "6", "7", "8", "9">>

IsDigit(c) == \E d \in 1..10 : Digits[d] = c

DigitVal(c) == CHOOSE d \in 0..9 : Digits[d + 1] = c

Unsigned(w) == IF Len(w) > 0 /\ w[1] \in {"-", "+"} THEN Tail(w) ELSE w

\* int(w) succeeds: an optional sign followed by at least one digit (the
\* words that arrive hold no blanks, underscores or non-ASCII digits)
IsIntLiteral(w) ==
    /\ Len(Unsigned(w)) > 0
    /\ \A i \in 1..Len(Unsigned(w)) : IsDigit(Unsigned(w)[i])

RECURSIVE Magnitude(_)
Magnitude(ds) ==
    IF ds = <<>> THEN 0
    ELSE 10 * Magnitude(SubSeq(ds, 1, Len(ds) - 1)) + DigitVal(ds[Len(ds)])

\* the fault of an int() that drops the sign
IntOfUnsigned(w) == Magnitude(Unsigned(w))

IntOf(w) == IF w[1] = "-" THEN 0 - Magnitude(Unsigned(w)) ELSE Magnitude(Unsigned(w))

RECURSIVE NatStr(_)
NatStr(n) ==
    IF n < 10 THEN <<Digits[n + 1]>>
    ELSE NatStr(n \div 10) \o <<Digits[(n % 10) + 1]>>

IntStr(n) == IF n < 0 THEN <<"-">> \o NatStr(0 - n) ELSE NatStr(n)

(* ------------------------------- texts -------------------------------- *)
AlreadyRunningText == <<"Ticket checking is already running.">>

UsageText ==
    <<"Usage: /startcheck departure destination date interval_minutes(optional, default=60)">>

StartedText(interval, departure, destination, date) ==
    <<"Started ticket checking every ">> \o IntStr(interval) \o <<" minutes for ">>
        \o departure \o <<" to ">> \o destination \o <<" on ">> \o date \o <<".">>

StoppedText == <<"Stopped ticket checking.">>

NotRunningText == <<"Ticket checking is not running.">>

NoTrainsText == <<"No trains found for the given parameters.">>

ErrorText(e) == <<"Error during ticket check: ", e>>

NotificationText(availability) == <<"Ticket availability:\n">> \o availability


\* the fault of a join that runs against the document order
JoinLinesReversed(entries) ==
    LET RECURSIVE Join(_)
        Join(es) ==
            IF Len(es) = 1 THEN <<es[1][1], ": ", es[1][2]>>
            ELSE <<es[Len(es)][1], ": ", es[Len(es)][2], "\n">>
                     \o Join(SubSeq(es, 1, Len(es) - 1))
    IN  Join(entries)

JoinLines(entries) ==
    LET RECURSIVE Join(_)
        Join(es) ==
            IF Len(es) = 1 THEN <<es[1][1], ": ", es[1][2]>>
            ELSE Join(SubSeq(es, 1, Len(es) - 1))
                     \o <<"\n", es[Len(es)][1], ": ", es[Len(es)][2]>>
    IN  Join(entries)

(* ------------------------------- state -------------------------------- *)
VARIABLES
    env,        \* TELEGRAM_BOT_TOKEN, TELEGRAM_CHAT_ID as os.getenv returns them
    phase,      \* "boot", "exited", "loaded" (module body done), "polling"
    bot,        \* the Bot client exists
    handlers,   \* the commands the dispatcher has a handler for
    clock,      \* wall clock, in minutes
    job,        \* the global `job`: NoJob or the id of a Job object
    jobs,       \* schedule.jobs, the default scheduler's registry
    info,       \* the Job objects, by id
    loops,      \* the run_schedule threads started so far
    sessions,   \* browser sessions that are open
    event,      \* the step just taken as the chat sees it: a command with the
                \* replies of its handler, or a job's notification; Idle once seen
    hist        \* per Job object: "new", "fired" (job_func has begun), "early"
                \* (a stopcheck cancelled it before job_func ever began)

vars == <<env, phase, bot, handlers, clock, job, jobs, info, loops, sessions,
          event, hist>>

startup == <<env, phase, bot, handlers>>

JobIds == 1..MaxStarts

\* what a step that is no probe has met in the browser
NoProbe == [failure |-> "none", entries |-> <<>>]

Idle == [by |-> "none", args |-> <<>>, chat |-> 0, job |-> NoJob,
         msgs |-> <<>>, raised |-> "none", probe |-> NoProbe]

\* the fields of a Job object that does not exist or that nothing refers to
Unreachable ==
    [departure |-> <<>>, destination |-> <<>>, date |-> <<>>, interval |-> 0,
     chat |-> 0, next_run |-> 0]

Init ==
    /\ env \in [token : EnvValues, chat_id : EnvValues]
    /\ phase = "boot"
    /\ bot = FALSE
    /\ handlers = {}
    /\ clock = 0
    /\ job = NoJob
    /\ jobs = {}
    /\ info = [j \in JobIds |-> Unreachable]
    /\ loops = EmptyBag
    /\ sessions = 0
    /\ event = Idle
    /\ hist = [j \in JobIds |-> "none"]

(* ------------------------------ startup ------------------------------- *)
\* `not value`: None and the empty string are falsy
\* the fault of a test for None alone
FalsyNoneOnly(v) == v = "None"

Falsy(v) == v \in {"None", ""}

SecretsMissing == Falsy(env.token) \/ Falsy(env.chat_id)

\* the module body: the secrets check, exit(1) or the Bot and the empty job slot
Boot ==
    /\ phase = "boot"
    /\ event = Idle
    /\ IF SecretsMissing
       THEN phase' = "exited" /\ bot' = bot
       ELSE phase' = "loaded" /\ bot' = TRUE
    /\ UNCHANGED <<env, handlers, clock, job, jobs, info, loops, sessions, event, hist>>

\* main(): register both handlers and start polling for updates
Main ==
    /\ phase = "loaded"
    /\ event = Idle
    /\ handlers' = {"startcheck", "stopcheck"}
    /\ phase' = "polling"
    /\ UNCHANGED <<env, bot, clock, job, jobs, info, loops, sessions, event, hist>>

(* --------------------------- command handlers ------------------------- *)
\* a handler that sent `text` with update.message.reply_text and returned
Replied(name, args, chat, text) ==
    [by |-> name, args |-> args, chat |-> chat, job |-> NoJob,
     msgs |-> <<[to |-> chat, text |-> text]>>, raised |-> "none", probe |-> NoProbe]

\* a handler that an exception left
Raised(name, args, chat, exc) ==
    [by |-> name, args |-> args, chat |-> chat, job |-> NoJob,
     msgs |-> <<>>, raised |-> exc, probe |-> NoProbe]

\* the fault of a missing guard on the job slot
JobActiveNever == FALSE

\* `if job:` a Job object is truthy, None is not
JobActive == job # NoJob

\* the try block of start_check: args[0], args[1], args[2], int(args[3]) or 60
ParseArgs(args) ==
    IF Len(args) < 3
    THEN [exc |-> "IndexError", departure |-> <<>>, destination |-> <<>>,
          date |-> <<>>, interval |-> 0]
    ELSE IF Len(args) > 3 /\ ~IsIntLiteral(args[4])
    THEN [exc |-> "ValueError", departure |-> args[1], destination |-> args[2],
          date |-> args[3], interval |-> 0]
    ELSE [exc |-> "none", departure |-> args[1], destination |-> args[2],
          date |-> args[3],
          interval |-> IF Len(args) > 3 THEN IntOf(args[4]) ELSE DefaultInterval]

\* except (IndexError, ValueError)
Caught(exc) == exc \in {"IndexError", "ValueError"}

\* schedule.every(interval).minutes.do(job_func): the Job object, with the
\* closure of job_func (query, originating chat) and its first next_run
NewJob(p, chat) ==
    [departure |-> p.departure, destination |-> p.destination, date |-> p.date,
     interval |-> p.interval, chat |-> chat, next_run |-> clock + p.interval]

\* threading.Thread(target=run_schedule, daemon=True).start()
SpawnLoop(ls) == ls (+) SetToBag({[pc |-> "sleep", pending |-> <<>>]})

\* the fault of a cancel that leaves the job registered
CancelNothing(registry, j) == registry

\* schedule.cancel_job(job)
CancelJob(registry, j) == registry \ {j}

\* the Job objects some run_pending() still holds in its list
Held(ls) ==
    UNION { { l.pending[i] : i \in 1..Len(l.pending) } : l \in BagToSet(ls) }

\* A cancelled Job object is never asked should_run again and its query only
\* goes into the browser: of a held one the chat of its closure still counts
Forget(objects, registry, ls) ==
    [j \in JobIds |->
        IF j \in registry THEN objects[j]
        ELSE IF j \in Held(ls) THEN [Unreachable EXCEPT !.chat = objects[j].chat]
        ELSE Unreachable]

ForgetHist(h, registry, ls) ==
    [j \in JobIds |-> IF j \in registry \cup Held(ls) THEN h[j] ELSE "none"]

\* the id of the next Job object
FreshId == CHOOSE j \in JobIds :
               /\ j \notin jobs \cup Held(loops)
               /\ \A k \in JobIds : k < j => k \in jobs \cup Held(loops)

StartCheck(args, chat) ==
    /\ phase = "polling"
    /\ event = Idle
    /\ "startcheck" \in handlers
    /\ IF JobActive
       THEN /\ event' = Replied("startcheck", args, chat, AlreadyRunningText)
            /\ UNCHANGED <<job, jobs, info, loops, hist>>
       ELSE LET p == ParseArgs(args) IN
            IF p.exc # "none"
            THEN /\ event' = IF Caught(p.exc)
                             THEN Replied("startcheck", args, chat, UsageText)
                             ELSE Raised("startcheck", args, chat, p.exc)
                 /\ UNCHANGED <<job, jobs, info, loops, hist>>
            ELSE /\ BagCardinality(loops) < MaxStarts
                 /\ info' = [info EXCEPT ![FreshId] = NewJob(p, chat)]
                 /\ jobs' = jobs \cup {FreshId}
                 /\ job' = FreshId
                 /\ event' = Replied("startcheck", args, chat,
                                 StartedText(p.interval, p.departure,
                                             p.destination, p.date))
                 /\ loops' = SpawnLoop(loops)
                 /\ hist' = [hist EXCEPT ![FreshId] = "new"]
    /\ UNCHANGED <<startup, clock, sessions>>

StopCheck(chat) ==
    /\ phase = "polling"
    /\ event = Idle
    /\ "stopcheck" \in handlers
    /\ IF JobActive
       THEN /\ jobs' = CancelJob(jobs, job)
            /\ job' = NoJob
            /\ event' = Replied("stopcheck", <<>>, chat, StoppedText)
            /\ hist' = ForgetHist([hist EXCEPT ![job] = IF @ = "new" THEN "early" ELSE @],
                                  jobs', loops)
            /\ info' = Forget(info, jobs', loops)
       ELSE /\ event' = Replied("stopcheck", <<>>, chat, NotRunningText)
            /\ UNCHANGED <<job, jobs, info, hist>>
    /\ UNCHANGED <<startup, clock, loops, sessions>>

(* ---------------------------- polling threads ------------------------ *)
\* Job.should_run: datetime.now() >= self.next_run
ShouldRun(j) == clock >= info[j].next_run

\* sorted(runnable_jobs): by next_run, registration order among equals
RECURSIVE SortJobs(_)
SortJobs(S) ==
    IF S = {} THEN <<>>
    ELSE LET first == CHOOSE j \in S :
                 \A k \in S : \/ info[j].next_run < info[k].next_run
                              \/ info[j].next_run = info[k].next_run /\ j <= k
         IN  <<first>> \o SortJobs(S \ {first})

\* schedule.run_pending(), first half: the list of the registered jobs that are due
Runnable == SortJobs({j \in jobs : ShouldRun(j)})

\* thread l goes on as m
Step(ls, l, m) == (ls (-) SetToBag({l})) (+) SetToBag({m})

\* time.sleep(1) is over and run_pending() picks the due jobs
RunPending(l) ==
    /\ l.pc = "sleep"
    /\ event = Idle
    /\ loops' = Step(loops, l, [pc |-> IF Runnable = <<>> THEN "sleep" ELSE "run",
                                pending |-> Runnable])
    /\ UNCHANGED <<startup, clock, job, jobs, info, sessions, event, hist>>

\* the exception leaves job_func, run_pending and run_schedule: the thread ends
Propagate(l) == [pc |-> "dead", pending |-> <<>>]

Alive(l) == l.pc \in {"sleep", "run", "probe"}

\* run_pending(), second half: job.run() calls job_func, which calls
\* check_ticket_availability, which opens the browser session (it may fail)
JobRun(l, opened) ==
    /\ l.pc = "run"
    /\ event = Idle
    /\ IF opened
       THEN /\ sessions' = sessions + 1
            /\ loops' = Step(loops, l, [l EXCEPT !.pc = "probe"])
       ELSE /\ sessions' = sessions
            /\ loops' = Step(loops, l, Propagate(l))
    /\ hist' = ForgetHist([hist EXCEPT ![Head(l.pending)] =
                                IF @ = "new" THEN "fired" ELSE @], jobs, loops')
    /\ info' = Forget(info, jobs, loops')
    /\ UNCHANGED <<startup, clock, job, jobs, event>>

\* the try block: what check_ticket_availability returns.  `failure` is the
\* step that raised ("none": no step did; "overlay": only the popup wait,
\* which is swallowed), `entries` what find_elements found
Availability(failure, entries) ==
    IF failure \in TryFailures THEN ErrorText(failure)
    ELSE IF entries = <<>> THEN NoTrainsText
    ELSE JoinLines(entries)

\* what a probe that got past driver.get can meet
Outcomes ==
    { [failure |-> f, entries |-> <<>>] : f \in TryFailures }
        \cup { [failure |-> f, entries |-> es] :
                   f \in {"none", "overlay"}, es \in SeqsUpTo(Entries, MaxEntries) }

\* finally: driver.quit()
Quit(n) == n - 1

\* job.run() after job_func returned: _schedule_next_run()
Reschedule(objects, j) == [objects EXCEPT ![j].next_run = clock + objects[j].interval]

\* the fault of a job that writes to one fixed chat
NotificationToFixedChat(j, o) ==
    [by |-> "job", args |-> <<>>, chat |-> 0, job |-> j,
     msgs |-> <<[to |-> 101,
                 text |-> NotificationText(Availability(o.failure, o.entries))]>>,
     raised |-> "none", probe |-> o]

\* job_func: bot.send_message(chat_id=update.effective_chat.id, text=...) of
\* what the probe that met `o` returned
Notification(j, o) ==
    [by |-> "job", args |-> <<>>, chat |-> 0, job |-> j,
     msgs |-> <<[to |-> info[j].chat,
                 text |-> NotificationText(Availability(o.failure, o.entries))]>>,
     raised |-> "none", probe |-> o]

\* driver.get(url) raises: it stands before the try block, so neither the
\* except nor the finally sees it
NavigationFails(l) ==
    /\ l.pc = "probe"
    /\ event = Idle
    /\ loops' = Step(loops, l, Propagate(l))
    /\ info' = Forget(info, jobs, loops')
    /\ hist' = ForgetHist(hist, jobs, loops')
    /\ UNCHANGED <<startup, clock, job, jobs, sessions, event>>

\* driver.get(url), the try block and the finally of the probe, then
\* bot.send_message in job_func, then the rest of job.run() and the next job
ProbeAndNotify(l, o) ==
    /\ l.pc = "probe"
    /\ event = Idle
    /\ LET j == Head(l.pending)
           rest == Tail(l.pending)
       IN  /\ sessions' = Quit(sessions)
           /\ event' = Notification(j, o)
           /\ loops' = Step(loops, l, [pc |-> IF rest = <<>> THEN "sleep" ELSE "run",
                                       pending |-> rest])
           /\ info' = Forget(Reschedule(info, j), jobs, loops')
           /\ hist' = ForgetHist(hist, jobs, loops')
    /\ UNCHANGED <<startup, clock, job, jobs>>

\* the chat has seen the event.  This comes before any other step; it reads
\* and writes nothing of the program, so no interleaving of the program is lost
Seen ==
    /\ event # Idle
    /\ event' = Idle
    /\ UNCHANGED <<startup, clock, job, jobs, info, loops, sessions, hist>>

\* a minute passes
Tick ==
    /\ phase = "polling"
    /\ event = Idle
    /\ clock < MaxTime
    /\ clock' = clock + 1
    /\ UNCHANGED <<startup, job, jobs, info, loops, sessions, event, hist>>

Next ==
    \/ Boot
    \/ Main
    \/ \E a \in ArgLists, c \in Chats : StartCheck(a, c)
    \/ \E c \in Chats : StopCheck(c)
    \/ \E l \in BagToSet(loops) : RunPending(l)
    \/ \E l \in BagToSet(loops), opened \in BOOLEAN : JobRun(l, opened)
    \/ \E l \in BagToSet(loops) : NavigationFails(l)
    \/ \E l \in BagToSet(loops), o \in Outcomes : ProbeAndNotify(l, o)
    \/ Tick
    \/ Seen

Spec == Init /\ [][Next]_vars

\* a step of a polling thread: `while True: schedule.run_pending();
\* time.sleep(1)` and what run_pending calls
LoopStep ==
    \E l \in BagToSet(loops) :
        \/ RunPending(l)
        \/ \E opened \in BOOLEAN : JobRun(l, opened)
        \/ NavigationFails(l)
        \/ \E o \in Outcomes : ProbeAndNotify(l, o)

\* The polling threads are scheduled: a thread that can step does step,
\* however many commands arrive in between (a command only holds the threads
\* up until its reply is seen, hence the strong form), and a message that was
\* sent reaches its chat.  Commands and the passing of the minutes are left
\* to the world
FairSpec == Spec /\ SF_vars(LoopStep) /\ WF_vars(Seen)

(* ----------------------------- properties ----------------------------- *)
\* the polling threads that have a job in hand, the probes that hold a session
Count(pcs) ==
    LET RECURSIVE Sum(_)
        Sum(S) == IF S = {} THEN 0
                  ELSE LET l == CHOOSE x \in S : TRUE
                       IN  (IF l.pc \in pcs THEN CopiesIn(l, loops) ELSE 0) + Sum(S \ {l})
    IN  Sum(BagToSet(loops))

\* what int() makes of the 4th arguments that arrive, and how str() prints
\* the intervals they give
IntegerWords == { <<"+", "0", "1">>, <<"0">>, <<"-", "1">> }

ExpectedInterval(args) ==
    IF Len(args) = 3 THEN 60
    ELSE IF args[4] = <<"+", "0", "1">> THEN 1
    ELSE IF args[4] = <<"0">> THEN 0
    ELSE -1

ExpectedEcho(args) ==
    IF Len(args) = 3 THEN <<"6", "0">>
    ELSE IF args[4] = <<"+", "0", "1">> THEN <<"1">>
    ELSE IF args[4] = <<"0">> THEN <<"0">>
    ELSE <<"-", "1">>

WellFormed(args) == Len(args) >= 3 /\ (Len(args) = 3 \/ args[4] \in IntegerWords)

OneReply(e, text) == e.msgs = <<[to |-> e.chat, text |-> text]>> /\ e.raised = "none"

\* C1: in every reachable state the scheduler holds at most one registered
\* job, and it is the one the job slot names
AtMostOneJob == Cardinality(jobs) <= 1 /\ (job # NoJob => jobs = {job})

AtMostOneJobWitness ==
    Cardinality(jobs) = 1 /\ BagCardinality(loops) = 2 /\ clock > 0

\* C2: a startcheck handled while a job is active replies "already running"
\* and leaves the job, its query, interval and chat, the registry and the
\* polling threads as they were
ActiveStartIsRejected ==
    [][ (event'.by = "startcheck" /\ job # NoJob) =>
            /\ OneReply(event', AlreadyRunningText)
            /\ UNCHANGED <<job, jobs, info, loops, sessions, clock>> ]_vars

ActiveStartIsRejectedWitness ==
    /\ event.by = "startcheck"
    /\ WellFormed(event.args)
    /\ OneReply(event, AlreadyRunningText)
    /\ job # NoJob

\* C3: a well-formed startcheck handled while no job is active registers
\* exactly one new job, with the query and the interval of its arguments (60
\* without a 4th argument), and sends exactly one reply, which echoes them
ValidStartCreatesJob ==
    [][ (event'.by = "startcheck" /\ job = NoJob /\ WellFormed(event'.args)) =>
            /\ job' # NoJob
            /\ job' \notin jobs
            /\ jobs' = jobs \cup {job'}
            /\ info'[job'].departure = event'.args[1]
            /\ info'[job'].destination = event'.args[2]
            /\ info'[job'].date = event'.args[3]
            /\ info'[job'].interval = ExpectedInterval(event'.args)
            /\ OneReply(event',
                   <<"Started ticket checking every ">> \o ExpectedEcho(event'.args)
                       \o <<" minutes for ">> \o event'.args[1] \o <<" to ">>
                       \o event'.args[2] \o <<" on ">> \o event'.args[3] \o <<".">>) ]_vars

ValidStartCreatesJobWitness ==
    /\ event.by = "startcheck"
    /\ Len(event.args) = 3
    /\ job # NoJob
    /\ info[job].interval = 60
    /\ BagCardinality(loops) = 2

\* C4: a startcheck with fewer than 3 arguments or a non-integer 4th argument
\* replies with the usage text and creates no job, whether a job is active or not
MalformedStartRepliesUsage ==
    [][ (event'.by = "startcheck" /\ ~WellFormed(event'.args)) =>
            /\ OneReply(event', UsageText)
            /\ UNCHANGED <<job, jobs, info, loops>> ]_vars

\* C5: a stopcheck handled while no job is active replies "not running",
\* raises nothing and changes nothing; one handled while a job is active takes
\* the job out of the registry, empties the slot and replies "stopped"; either
\* way the slot is empty afterwards, so the next stopcheck replies "not running"
StopCheckContract ==
    [][ event'.by = "stopcheck" =>
            /\ job' = NoJob
            /\ IF job = NoJob
               THEN /\ OneReply(event', NotRunningText)
                    /\ UNCHANGED <<job, jobs, info, loops, sessions, clock, hist>>
               ELSE /\ OneReply(event', StoppedText)
                    /\ jobs' = jobs \ {job} ]_vars

StopCheckContractWitness ==
    /\ event.by = "stopcheck"
    /\ OneReply(event, NotRunningText)
    /\ BagCardinality(loops) > 0

\* C6: at most one polling loop is ever started, whatever startcheck and
\* stopcheck commands were handled
OnePollingLoop == BagCardinality(loops) <= 1

\* C7: no probe failure ends a polling loop: every loop that was started is
\* still running
LoopsSurviveProbes == \A l \in BagToSet(loops) : Alive(l)

\* C8: a probe ends only by returning a text: whenever a polling thread lets
\* go of a job it had in hand, the text has been sent as a notification
ProbeAlwaysReturnsText ==
    [][ Count({"run", "probe"})' < Count({"run", "probe"}) =>
            /\ event'.by = "job"
            /\ Len(event'.msgs) = 1
            /\ event'.msgs[1].text # <<>> ]_vars

\* C9: the only browser sessions open are those of the probes in flight
NoLeakedSession == sessions = Count({"probe"})

\* C10: a job that a stopcheck cancelled before its first firing began never
\* sends a notification
EarlyStopSilences ==
    [][ event'.by = "job" => hist[event'.job] # "early" ]_vars

\* C11: once a stopcheck has answered, no polling thread begins a probe of
\* the job it cancelled (the job a thread takes in hand is a registered one),
\* and the stopcheck itself interrupts no thread and closes no session
StopEndsFirings ==
    [][ /\ \A l \in BagToSet(loops) :
              (l.pc = "run" /\ CopiesIn(l, loops') < CopiesIn(l, loops))
                  => Head(l.pending) \in jobs
        /\ event'.by = "stopcheck" => (loops' = loops /\ sessions' = sessions) ]_vars

\* C12: a job's notification goes to the chat whose startcheck made the job
\* and to no other: the job is made with the chat of its startcheck, keeps it
\* as long as a thread or the registry holds it, and every tick sends one
\* message, to that chat
NotifiesOriginChat ==
    [][ /\ (event'.by = "startcheck" /\ job = NoJob /\ job' # NoJob)
              => info'[job'].chat = event'.chat
        /\ \A j \in JobIds :
              (/\ j \in jobs \cup Held(loops)
               /\ j \in jobs' \cup Held(loops')
               /\ ~(job = NoJob /\ job' = j))
                  => info'[j].chat = info[j].chat
        /\ event'.by = "job"
              => /\ Len(event'.msgs) = 1
                 /\ event'.msgs[1].to = info[event'.job].chat
                 /\ event'.msgs[1].to \in Chats ]_vars

\* a job of chat 102, cancelled while a thread held it, notifies while the
\* slot holds a later job of chat 101
NotifiesOriginChatWitness ==
    /\ event.by = "job"
    /\ event.msgs[1].to = 102
    /\ job # NoJob
    /\ job # event.job
    /\ info[job].chat = 101

\* the lines of a non-empty sequence of entries, first to last
RECURSIVE LinesOf(_)
LinesOf(es) ==
    IF Len(es) = 1 THEN <<es[1][1], ": ", es[1][2]>>
    ELSE <<es[1][1], ": ", es[1][2], "\n">> \o LinesOf(Tail(es))

\* the tick's probe found entries
FoundEntries(e) ==
    /\ e.by = "job"
    /\ e.probe.failure \notin TryFailures
    /\ e.probe.entries # <<>>

EveryIntervalPositive == \A j \in jobs : info[j].interval > 0

\* C15: with either secret missing (unset or empty) the process ends before
\* anything else comes to be: no bot client, no handler, no job, no thread
MissingSecretStopsAll ==
    (env.token \in {"None", ""} \/ env.chat_id \in {"None", ""})
        => /\ phase \in {"boot", "exited"}
           /\ bot = FALSE
           /\ handlers = {}
           /\ job = NoJob
           /\ jobs = {}
           /\ loops = EmptyBag
           /\ sessions = 0

MissingSecretStopsAllWitness ==
    /\ phase = "exited"
    /\ env.token = "secret"
    /\ env.chat_id = ""

\* C16: under fair scheduling of the polling threads the schedule goes on
\* whatever the probes meet: an active job that is due leads to a notification
\* of that job, unless a stopcheck empties the slot first
DueJobNotifies ==
    (job # NoJob /\ ShouldRun(job))
        ~> (job = NoJob \/ (event.by = "job" /\ event.job = job))

\* the threads that are in a probe of job j
InFlight(j) ==
    LET RECURSIVE Sum(_)
        Sum(S) == IF S = {} THEN 0
                  ELSE LET l == CHOOSE x \in S : TRUE
                       IN  (IF l.pc = "probe" /\ Head(l.pending) = j
                            THEN CopiesIn(l, loops) ELSE 0) + Sum(S \ {l})
    IN  Sum(BagToSet(loops))

\* C17: a due firing is executed once: no two probes of the same job are in
\* flight at the same time
NoDoubleFiring == \A j \in JobIds : InFlight(j) <= 1

\* C18: between the handlers the slot and the registry agree: the slot is
\* filled exactly when one job is registered, and then it is the slot's job
SlotMatchesRegistry ==
    /\ job # NoJob <=> Cardinality(jobs) = 1
    /\ job = NoJob <=> jobs = {}
    /\ job # NoJob => job \in jobs

\* both ways round: a second job registered while the first, cancelled, is
\* still being probed, and all of it stopped again with that probe going on
SlotMatchesRegistryWitness ==
    /\ job = NoJob
    /\ jobs = {}
    /\ BagCardinality(loops) = 2
    /\ Count({"probe"}) > 0

\* C19: while the slot holds a job (so that a startcheck would be answered
\* "already running") some polling thread is alive to fire it
ActiveJobHasLiveLoop ==
    job # NoJob => \E l \in BagToSet(loops) : Alive(l)

=============================================================================
